---- MODULE Spec2Model ----
(***************************************************************************)
(* Model of src/consumer/stream_consumer.rs: a StreamConsumer owning a     *)
(* BaseConsumer behind an Arc, a shared stop flag and the JoinHandle of    *)
(* the most recently spawned polling thread; poll_loop running on each     *)
(* spawned thread; one futures mpsc::channel(0) per start_with call; the   *)
(* MessageStream pulling from the channel's receiver; PolledPtr ownership  *)
(* of native message handles.                                              *)
(*                                                                         *)
(* The channel is futures 0.1 mpsc::channel(0): its capacity is the buffer *)
(* (0) plus one guaranteed slot per sender.  A send enqueues the item and  *)
(* parks the sender; the parked sender cannot enqueue again until the      *)
(* receiver has popped an item (or has been dropped).  Dropping the        *)
(* receiver closes the channel, wakes the sender and drops queued items.   *)
(* A send future that also waits for the receive before it completes       *)
(* behaves as a thread that rests at its loop-top, so its behaviours are   *)
(* among those explored.                                                   *)
(*                                                                         *)
(* stop(&mut self) and drop need the exclusive borrow, so they run only    *)
(* when no MessageStream and no Message view is alive (NoBorrow).  The     *)
(* Relaxed load of the stop flag is a read of the current value: a stale   *)
(* read is the same read taken earlier.  startedAtDrop is a history        *)
(* variable: it records, when a stream is dropped, how many poll_raw calls *)
(* its thread had begun.                                                   *)
(***************************************************************************)
EXTENDS Integers, Sequences, FiniteSets, TLC

\* ---------------------------------------------------------------- bounds
MaxThreads == 2          \* number of start/start_with calls explored
MaxPolls == 3            \* number of poll_raw calls explored (all threads)
Errs == {1}              \* error values poll_raw may return

\* ------------------------------------------------------- program constants
ChannelBuffer == 0       \* mpsc::channel(0)
NoMessageReceived == 0   \* KafkaError::NoMessageReceived
NoPtr == 0               \* message_ptr == None
NoHandle == 0            \* handle == Cell(None)

Threads == 1..MaxThreads
Handles == 1..MaxPolls

VARIABLES
    callerPc,          \* owner of the StreamConsumer: idle, stop_join, drop_join, dropped
    handle,            \* StreamConsumer.handle: NoHandle or the stored thread
    should_stop,       \* StreamConsumer.should_stop
    joinTarget,        \* the JoinHandle taken by the stop() in progress
    nThreads,          \* threads spawned so far
    arcCount,          \* strong count of Arc<BaseConsumer>
    consumerReleased,  \* the BaseConsumer has been dropped
    pc,                \* per thread: unspawned, top, polling, send, done
    no_message_error,  \* per thread: argument of start_with
    outcome,           \* per thread: the item of the send in progress
    polled,            \* per thread: outcomes returned by its poll_raw calls
    nextHandle,        \* next native message handle poll_raw returns
    queue,             \* per channel: items enqueued and not yet received
    parked,            \* per channel: the sender is parked
    rxOpen,            \* per channel: the MessageStream (receiver) is alive
    yielded,           \* per stream: items the stream has yielded
    streamEnded,       \* per stream: the stream has yielded end-of-sequence
    views,             \* handles owned by live Message views
    destroyed,         \* per handle: calls of rd_kafka_message_destroy
    startedAtDrop      \* per thread: poll_raw calls begun when its stream was dropped

vars == <<callerPc, handle, should_stop, joinTarget, nThreads, arcCount,
          consumerReleased, pc, no_message_error, outcome, polled, nextHandle,
          queue, parked, rxOpen, yielded, streamEnded, views, destroyed,
          startedAtDrop>>

callerVars == <<callerPc, handle, should_stop, joinTarget, nThreads>>
streamVars == <<yielded, streamEnded, views>>

\* ------------------------------------------------------------------ items
NoItem == [k |-> "nil", v |-> 0]
PollNone == [k |-> "none", v |-> 0]
PollSome(h) == [k |-> "some", v |-> h]
PollErr(e) == [k |-> "err", v |-> e]

\* PolledPtr::new
PolledPtrNew(m_ptr) == [k |-> "ptr", v |-> m_ptr]

\* a PolledPtr that still holds its pointer after into_message_of
PolledPtrTake_copy(p) == p

\* self.message_ptr.take(): the PolledPtr left behind by into_message_of
PolledPtrTake(p) == [k |-> "ptr", v |-> NoPtr]

\* a PolledPtr without a Drop: the handle is never released
DropItem_leak(item, d) == d

\* Drop for PolledPtr (an Err item owns no handle)
DropItem(item, d) ==
    IF item.k = "ptr" /\ item.v # NoPtr THEN [d EXCEPT ![item.v] = @ + 1] ELSE d

\* a dropped channel that forgets the items still queued
DropAll_none(q, d) == d

RECURSIVE DropAll(_, _)
DropAll(q, d) == IF q = <<>> THEN d ELSE DropAll(Tail(q), DropItem(Head(q), d))

\* a loop that reports every failure as NoMessageReceived
SendItem_masked(o) ==
    IF o.k = "some" THEN PolledPtrNew(o.v) ELSE [k |-> "err", v |-> NoMessageReceived]

\* the item poll_loop hands to curr_sender.send for a poll_raw outcome
SendItem(o) ==
    CASE o.k = "none" -> [k |-> "err", v |-> NoMessageReceived]
      [] o.k = "some" -> PolledPtrNew(o.v)
      [] OTHER        -> [k |-> "err", v |-> o.v]

\* a loop that never reports a timeout
Reports_never(o, nme) == o.k # "none"

\* a loop that reports every timeout
Reports_always(o, nme) == TRUE

\* whether poll_loop sends anything for the outcome
Reports(o, nme) == o.k # "none" \/ nme

\* a channel whose sender is never made to wait (an unbounded channel)
ParkAfterSend_never(n) == FALSE

\* mpsc::channel(0): with n items in the channel after a send, the sender is
\* parked when n exceeds the buffer
ParkAfterSend(n) == n > ChannelBuffer

\* a receiver that reports the end as soon as nothing is queued
SenderGone_early(p) == TRUE

\* the receiver sees the end of the channel once the thread has dropped its sender
SenderGone(p) == p = "done"

\* a receive that leaves the item in the channel
Receive_peek(q) == q

\* self.receiver.poll() with an item ready: the channel after the receive
Receive(q) == Tail(q)

\* MessageStream::poll: result.map(|polled_ptr| polled_ptr.into_message_of(..))
StreamItem(item) == IF item.k = "ptr" THEN [k |-> "msg", v |-> item.v] ELSE item

RECURSIVE SumLen(_)
SumLen(t) == IF t = 0 THEN 0 ELSE Len(polled[t]) + SumLen(t - 1)
TotalPolls == SumLen(MaxThreads)

\* ------------------------------------------------------------------- Init
Init ==
    /\ callerPc = "idle"
    /\ handle = NoHandle
    /\ should_stop = FALSE
    /\ joinTarget = NoHandle
    /\ nThreads = 0
    /\ arcCount = 1
    /\ consumerReleased = FALSE
    /\ pc = [t \in Threads |-> "unspawned"]
    /\ no_message_error = [t \in Threads |-> FALSE]
    /\ outcome = [t \in Threads |-> NoItem]
    /\ polled = [t \in Threads |-> <<>>]
    /\ nextHandle = 1
    /\ queue = [t \in Threads |-> <<>>]
    /\ parked = [t \in Threads |-> FALSE]
    /\ rxOpen = [t \in Threads |-> FALSE]
    /\ yielded = [t \in Threads |-> <<>>]
    /\ streamEnded = [t \in Threads |-> FALSE]
    /\ views = {}
    /\ destroyed = [h \in Handles |-> 0]
    /\ startedAtDrop = [t \in Threads |-> 0]

\* --------------------------------------------------------- StreamConsumer
\* the borrow of &self held by every MessageStream and Message view: stop()
\* and drop take &mut self, so none of them is alive when either is called
NoBorrow == views = {} /\ \A t \in Threads : ~rxOpen[t]

\* a thread that uses the consumer without owning a reference
ArcClone_borrow(c) == c

\* self.consumer.clone(): the spawned thread owns a second reference
ArcClone(c) == c + 1

\* a stop() that stores the flag before looking at the handle
StopFlag_always(h, flag) == TRUE

\* a stop() that joins without storing the flag
StopFlag_never(h, flag) == flag

\* stop(): the flag is stored only when a handle was taken
StopFlag(h, flag) == IF h = NoHandle THEN flag ELSE TRUE

\* a start_with that clears the flag for the new thread
FlagAfterStart_reset(flag) == FALSE

\* start_with clones should_stop and never stores to it
FlagAfterStart(flag) == flag

\* start_with(poll_interval, no_message_error)
StartWith(nme) ==
    /\ callerPc = "idle"
    /\ nThreads < MaxThreads
    /\ nThreads' = nThreads + 1
    /\ arcCount' = ArcClone(arcCount)
    /\ pc' = [pc EXCEPT ![nThreads + 1] = "top"]
    /\ no_message_error' = [no_message_error EXCEPT ![nThreads + 1] = nme]
    /\ rxOpen' = [rxOpen EXCEPT ![nThreads + 1] = TRUE]
    /\ handle' = nThreads + 1
    /\ should_stop' = FlagAfterStart(should_stop)
    /\ UNCHANGED <<callerPc, joinTarget, consumerReleased, outcome,
                   polled, nextHandle, queue, parked, destroyed, startedAtDrop>>
    /\ UNCHANGED streamVars

\* start(): start_with(100ms, false)
Start == StartWith(FALSE)

\* stop(), up to the join
Stop ==
    /\ callerPc = "idle"
    /\ NoBorrow
    /\ joinTarget' = handle
    /\ handle' = NoHandle
    /\ should_stop' = StopFlag(handle, should_stop)
    /\ callerPc' = IF handle = NoHandle THEN "idle" ELSE "stop_join"
    /\ UNCHANGED <<nThreads, arcCount, consumerReleased, pc, no_message_error,
                   outcome, polled, nextHandle, queue, parked, rxOpen, destroyed,
                   startedAtDrop>>
    /\ UNCHANGED streamVars

\* handle.join() returns: the joined thread has terminated
StopJoin ==
    /\ callerPc = "stop_join"
    /\ pc[joinTarget] = "done"
    /\ callerPc' = "idle"
    /\ joinTarget' = NoHandle
    /\ UNCHANGED <<handle, should_stop, nThreads, arcCount, consumerReleased, pc,
                   no_message_error, outcome, polled, nextHandle, queue, parked,
                   rxOpen, destroyed, startedAtDrop>>
    /\ UNCHANGED streamVars

\* the owner's reference to the BaseConsumer goes away with the fields
ReleaseOwner ==
    /\ arcCount' = arcCount - 1
    /\ consumerReleased' = (consumerReleased \/ arcCount' = 0)

\* Drop for StreamConsumer: self.stop(), then the fields are dropped
DropConsumer ==
    /\ callerPc = "idle"
    /\ NoBorrow
    /\ joinTarget' = handle
    /\ handle' = NoHandle
    /\ should_stop' = StopFlag(handle, should_stop)
    /\ IF handle = NoHandle
         THEN callerPc' = "dropped" /\ ReleaseOwner
         ELSE callerPc' = "drop_join" /\ UNCHANGED <<arcCount, consumerReleased>>
    /\ UNCHANGED <<nThreads, pc, no_message_error, outcome, polled, nextHandle,
                   queue, parked, rxOpen, destroyed, startedAtDrop>>
    /\ UNCHANGED streamVars

\* the join inside drop returns, then the fields are dropped
DropJoin ==
    /\ callerPc = "drop_join"
    /\ pc[joinTarget] = "done"
    /\ callerPc' = "dropped"
    /\ joinTarget' = NoHandle
    /\ ReleaseOwner
    /\ UNCHANGED <<handle, should_stop, nThreads, pc, no_message_error, outcome,
                   polled, nextHandle, queue, parked, rxOpen, destroyed,
                   startedAtDrop>>
    /\ UNCHANGED streamVars

\* -------------------------------------------------------------- poll_loop
\* poll_loop returns: the closure's consumer, sender and flag are dropped
ThreadReturn(t) ==
    /\ pc' = [pc EXCEPT ![t] = "done"]
    /\ arcCount' = arcCount - 1
    /\ consumerReleased' = (consumerReleased \/ arcCount' = 0)

\* a loop that never looks at the flag
LoopContinues_ignore(flag) == TRUE

\* the loop condition !should_stop.load(Ordering::Relaxed)
LoopContinues(flag) == ~flag

\* a send error that is logged and the loop goes on
OnSendError_continue(t) ==
    /\ pc' = [pc EXCEPT ![t] = "top"]
    /\ UNCHANGED <<arcCount, consumerReleased>>

\* Err(e) => break: the loop is left and poll_loop returns
OnSendError(t) == ThreadReturn(t)

\* a loop that gives up on the first error of poll_raw
AfterPoll_breakOnErr(o, nme) ==
    IF o.k = "err" THEN "done" ELSE IF o.k # "none" \/ nme THEN "send" ELSE "top"

\* where the loop goes with the outcome o: to the send, or back to the top
AfterPoll(o, nme) == IF Reports(o, nme) THEN "send" ELSE "top"

\* while !should_stop.load(Ordering::Relaxed)
LoopTop(t) ==
    /\ pc[t] = "top"
    /\ IF LoopContinues(should_stop)
         THEN /\ pc' = [pc EXCEPT ![t] = "polling"]
              /\ UNCHANGED <<arcCount, consumerReleased>>
         ELSE ThreadReturn(t)
    /\ UNCHANGED <<outcome, polled, nextHandle, queue, parked, rxOpen, destroyed,
                   no_message_error, startedAtDrop>>
    /\ UNCHANGED callerVars
    /\ UNCHANGED streamVars

\* consumer.poll_raw(poll_interval_ms) returns o; the match builds the send
PollRaw(t, o) ==
    /\ pc[t] = "polling"
    /\ TotalPolls < MaxPolls
    /\ polled' = [polled EXCEPT ![t] = Append(@, o)]
    /\ nextHandle' = IF o.k = "some" THEN nextHandle + 1 ELSE nextHandle
    /\ pc' = [pc EXCEPT ![t] = AfterPoll(o, no_message_error[t])]
    /\ IF Reports(o, no_message_error[t])
         THEN outcome' = [outcome EXCEPT ![t] = SendItem(o)]
         ELSE UNCHANGED outcome
    /\ UNCHANGED <<arcCount, consumerReleased, queue, parked, rxOpen, destroyed,
                   no_message_error, startedAtDrop>>
    /\ UNCHANGED callerVars
    /\ UNCHANGED streamVars

Poll(t) ==
    \/ PollRaw(t, PollNone)
    \/ PollRaw(t, PollSome(nextHandle))
    \/ \E e \in Errs : PollRaw(t, PollErr(e))

\* future_sender.wait(): the sender is not parked, so the send is decided
SendWait(t) ==
    /\ pc[t] = "send"
    /\ ~parked[t]
    /\ outcome' = [outcome EXCEPT ![t] = NoItem]
    /\ IF rxOpen[t]
         THEN /\ queue' = [queue EXCEPT ![t] = Append(@, outcome[t])]
              /\ parked' = [parked EXCEPT ![t] = ParkAfterSend(Len(queue[t]) + 1)]
              /\ pc' = [pc EXCEPT ![t] = "top"]
              /\ UNCHANGED <<arcCount, consumerReleased, destroyed>>
         ELSE /\ destroyed' = DropItem(outcome[t], destroyed)
              /\ OnSendError(t)
              /\ UNCHANGED <<queue, parked>>
    /\ UNCHANGED <<polled, nextHandle, rxOpen, no_message_error, startedAtDrop>>
    /\ UNCHANGED callerVars
    /\ UNCHANGED streamVars

\* ---------------------------------------------------------- MessageStream
\* MessageStream::poll, the receiver has an item
StreamYield(t) ==
    /\ rxOpen[t]
    /\ ~streamEnded[t]
    /\ queue[t] # <<>>
    /\ queue' = [queue EXCEPT ![t] = Receive(@)]
    /\ parked' = [parked EXCEPT ![t] = FALSE]
    /\ yielded' = [yielded EXCEPT ![t] = Append(@, StreamItem(Head(queue[t])))]
    /\ IF Head(queue[t]).k = "ptr"
         THEN /\ views' = views \cup {Head(queue[t]).v}
              /\ destroyed' = DropItem(PolledPtrTake(Head(queue[t])), destroyed)
         ELSE UNCHANGED <<views, destroyed>>
    /\ UNCHANGED <<arcCount, consumerReleased, pc, no_message_error, outcome,
                   polled, nextHandle, rxOpen, streamEnded, startedAtDrop>>
    /\ UNCHANGED callerVars

\* MessageStream::poll, the queue is empty and the sender is gone
StreamEnd(t) ==
    /\ rxOpen[t]
    /\ ~streamEnded[t]
    /\ queue[t] = <<>>
    /\ SenderGone(pc[t])
    /\ streamEnded' = [streamEnded EXCEPT ![t] = TRUE]
    /\ UNCHANGED <<arcCount, consumerReleased, pc, no_message_error, outcome,
                   polled, nextHandle, queue, parked, rxOpen, yielded, views,
                   destroyed, startedAtDrop>>
    /\ UNCHANGED callerVars

\* the MessageStream is dropped: the receiver closes the channel, wakes the
\* sender and drops the items still queued
StreamDrop(t) ==
    /\ rxOpen[t]
    /\ rxOpen' = [rxOpen EXCEPT ![t] = FALSE]
    /\ parked' = [parked EXCEPT ![t] = FALSE]
    /\ destroyed' = DropAll(queue[t], destroyed)
    /\ queue' = [queue EXCEPT ![t] = <<>>]
    /\ startedAtDrop' = [startedAtDrop EXCEPT
                           ![t] = Len(polled[t]) + IF pc[t] = "polling" THEN 1 ELSE 0]
    /\ UNCHANGED <<arcCount, consumerReleased, pc, no_message_error, outcome,
                   polled, nextHandle>>
    /\ UNCHANGED callerVars
    /\ UNCHANGED streamVars

\* a Message view is dropped and releases the handle it owns
MessageDrop(h) ==
    /\ h \in views
    /\ views' = views \ {h}
    /\ destroyed' = [destroyed EXCEPT ![h] = @ + 1]
    /\ UNCHANGED <<arcCount, consumerReleased, pc, no_message_error, outcome,
                   polled, nextHandle, queue, parked, rxOpen, yielded, streamEnded,
                   startedAtDrop>>
    /\ UNCHANGED callerVars

\* ------------------------------------------------------------------- Next
Next ==
    \/ Start
    \/ \E nme \in BOOLEAN : StartWith(nme)
    \/ Stop
    \/ StopJoin
    \/ DropConsumer
    \/ DropJoin
    \/ \E t \in Threads : LoopTop(t)
    \/ \E t \in Threads : Poll(t)
    \/ \E t \in Threads : SendWait(t)
    \/ \E t \in Threads : StreamYield(t)
    \/ \E t \in Threads : StreamEnd(t)
    \/ \E t \in Threads : StreamDrop(t)
    \/ \E h \in Handles : MessageDrop(h)

Spec == Init /\ [][Next]_vars

\* poll_raw keeps returning within its timeout beyond the outcomes explored:
\* for a thread whose stream is dropped a further call times out with Ok(None),
\* which is not added to the recorded outcomes
PollAtBound(t) ==
    /\ pc[t] = "polling"
    /\ TotalPolls >= MaxPolls
    /\ ~rxOpen[t]
    /\ pc' = [pc EXCEPT ![t] = AfterPoll(PollNone, no_message_error[t])]
    /\ IF Reports(PollNone, no_message_error[t])
         THEN outcome' = [outcome EXCEPT ![t] = SendItem(PollNone)]
         ELSE UNCHANGED outcome
    /\ UNCHANGED <<arcCount, consumerReleased, polled, nextHandle, queue, parked,
                   rxOpen, destroyed, no_message_error, startedAtDrop>>
    /\ UNCHANGED callerVars
    /\ UNCHANGED streamVars

LiveNext ==
    \/ Next
    \/ \E t \in Threads : PollAtBound(t)

\* every spawned thread is scheduled, every poll_raw call returns, and a join
\* returns once the joined thread has
Fairness ==
    /\ \A t \in Threads : WF_vars(LoopTop(t))
    /\ \A t \in Threads : WF_vars(Poll(t) \/ PollAtBound(t))
    /\ \A t \in Threads : WF_vars(SendWait(t))
    /\ WF_vars(StopJoin)
    /\ WF_vars(DropJoin)

LiveSpec == Init /\ [][LiveNext]_vars /\ Fairness

TypeOK ==
    /\ callerPc \in {"idle", "stop_join", "drop_join", "dropped"}
    /\ handle \in 0..MaxThreads
    /\ should_stop \in BOOLEAN
    /\ nThreads \in 0..MaxThreads
    /\ \A t \in Threads : pc[t] \in {"unspawned", "top", "polling", "send", "done"}
    /\ \A t \in Threads : Len(queue[t]) <= ChannelBuffer + 1

\* ================================================================= claims
\* what a stream is expected to yield for a poll_raw outcome
ExpectedOf(o) ==
    CASE o.k = "some" -> [k |-> "msg", v |-> o.v]
      [] o.k = "none" -> [k |-> "err", v |-> NoMessageReceived]
      [] OTHER        -> [k |-> "err", v |-> o.v]

MapExpected(s) == [i \in 1..Len(s) |-> ExpectedOf(s[i])]

\* the outcomes of thread t that are to be reported, in poll-call order
ReportedPolls(t) ==
    SelectSeq(polled[t], LAMBDA o : o.k # "none" \/ no_message_error[t])

AsYielded(item) == IF item.k = "ptr" THEN [k |-> "msg", v |-> item.v] ELSE item

\* everything thread t has handed over or is about to: yielded by the stream,
\* resting in the channel, or carried by the send in progress
Handed(t) ==
    yielded[t] \o [i \in 1..Len(queue[t]) |-> AsYielded(queue[t][i])]
               \o (IF outcome[t] = NoItem THEN <<>> ELSE <<AsYielded(outcome[t])>>)

IsPrefix(a, b) == Len(a) <= Len(b) /\ \A i \in 1..Len(a) : a[i] = b[i]

Finished(t) == pc[t] \in {"unspawned", "done"}
Active == {t \in Threads : ~Finished(t)}

\* C1: the items a MessageStream has yielded are a prefix of the reported
\* outcomes of its polling thread in poll-call order (nothing reordered,
\* duplicated or skipped); while the stream is alive every reported outcome is
\* yielded, in the channel or in the send in progress, so when all are pulled
\* the stream has yielded exactly the reported outcomes.
C1_OrderPreserved ==
    \A t \in Threads :
        /\ IsPrefix(yielded[t], MapExpected(ReportedPolls(t)))
        /\ rxOpen[t] => Handed(t) = MapExpected(ReportedPolls(t))

C1_Witness ==
    \E t \in Threads :
        /\ Len(yielded[t]) = 3
        /\ \A i \in 1..3 : yielded[t][i] = [k |-> "msg", v |-> polled[t][i].v]
        /\ polled[t] = <<PollSome(1), PollSome(2), PollSome(3)>>

Quiescent == /\ \A t \in Threads : Finished(t) /\ ~rxOpen[t]
             /\ views = {}

\* C2: no native handle is destroyed twice, a handle owned by a live view or
\* not yet returned by poll_raw is not destroyed, and once every polling thread
\* has terminated and every MessageStream and Message view is dropped, every
\* handle poll_raw returned has been destroyed exactly once.
C2_DestroyedExactlyOnce ==
    /\ \A h \in Handles : destroyed[h] <= 1
    /\ \A h \in views : destroyed[h] = 0
    /\ \A h \in Handles : h >= nextHandle => destroyed[h] = 0
    /\ Quiescent => \A h \in Handles : h < nextHandle => destroyed[h] = 1

C2_Witness ==
    /\ Quiescent
    /\ nextHandle = 4
    /\ \E t \in Threads : \E i \in 1..Len(yielded[t]) : yielded[t][i].k = "msg"
    /\ \E t \in Threads : Len(yielded[t]) < Len(polled[t])

\* C3: whenever a call to stop() returns (from the join, in stop or in drop),
\* no thread spawned on this StreamConsumer is still running.
C3_StopReturnsAfterTermination ==
    [][(callerPc \in {"stop_join", "drop_join"} /\ callerPc' \in {"idle", "dropped"})
          => \A t \in Threads : Finished(t)']_vars

\* C4: with no thread handle stored, stop() does not block and leaves the stop
\* flag, the stored handle and the underlying consumer as they are; so a second
\* stop() right after a first changes nothing.
C4_StopIdempotent ==
    [][(handle = NoHandle /\ callerPc = "idle" /\ nThreads' = nThreads)
          => /\ callerPc' \in {"idle", "dropped"}
             /\ should_stop' = should_stop
             /\ handle' = NoHandle
             /\ callerPc' = "idle" => /\ consumerReleased' = consumerReleased
                                      /\ arcCount' <= arcCount
                                      /\ arcCount' >= 1]_vars

C4_Witness ==
    /\ callerPc = "idle"
    /\ handle = NoHandle
    /\ should_stop
    /\ NoBorrow
    /\ nThreads = 1
    /\ Len(polled[1]) > 0

\* poll_raw calls thread t has begun
CallsBegun(t) == Len(polled[t]) + IF pc[t] = "polling" THEN 1 ELSE 0

\* C5: once its MessageStream is dropped, a polling thread begins at most one
\* further poll_raw call (it then terminates on the send attempt).
C5_DropStopsPolling ==
    \A t \in Threads :
        (pc[t] # "unspawned" /\ ~rxOpen[t]) => CallsBegun(t) - startedAtDrop[t] <= 1

NoMsgItem == [k |-> "err", v |-> NoMessageReceived]

\* C7: with no_message_error false a poll_raw call that returns Ok(None) leads
\* to no send and no stream item: no NoMessageReceived item is ever in the
\* send in progress, in the channel or yielded, the thread is not in a send
\* after an Ok(None), and the items handed over are those of the other polls.
C7_TimeoutSilent ==
    \A t \in Threads :
        ~no_message_error[t] =>
            /\ outcome[t] # NoMsgItem
            /\ \A i \in 1..Len(queue[t]) : queue[t][i] # NoMsgItem
            /\ \A i \in 1..Len(yielded[t]) : yielded[t][i] # NoMsgItem
            /\ (polled[t] # <<>> /\ polled[t][Len(polled[t])] = PollNone)
                  => pc[t] # "send" /\ outcome[t] = NoItem
            /\ rxOpen[t] => Len(Handed(t)) =
                               Len(SelectSeq(polled[t], LAMBDA o : o # PollNone))

C7_Witness ==
    \E t \in Threads :
        /\ ~no_message_error[t]
        /\ polled[t] = <<PollNone, PollSome(1), PollNone>>
        /\ yielded[t] = <<[k |-> "msg", v |-> 1]>>
        /\ pc[t] = "polling"

\* C8: an Err(e) returned by poll_raw is handed over as exactly one Err(e)
\* item in its position among the reported outcomes; the thread does not
\* terminate because of it (a thread terminates only on the stop flag or on a
\* dropped stream); after Err(e) then Ok(Some(h)) the stream yields Err(e)
\* and then the message of h.
C8_ErrorsForwarded ==
    \A t \in Threads :
        /\ rxOpen[t] =>
              /\ Len(Handed(t)) = Len(ReportedPolls(t))
              /\ \A i \in 1..Len(ReportedPolls(t)) :
                    ReportedPolls(t)[i].k = "err" =>
                        Handed(t)[i] = [k |-> "err", v |-> ReportedPolls(t)[i].v]
        /\ pc[t] = "done" => should_stop \/ ~rxOpen[t]
        /\ \A e \in Errs :
              (polled[t] = <<PollErr(e), PollSome(1)>> /\ Len(yielded[t]) = 2)
                  => yielded[t] = <<[k |-> "err", v |-> e], [k |-> "msg", v |-> 1]>>

C8_Witness ==
    \E t \in Threads : \E e \in Errs :
        /\ polled[t] = <<PollErr(e), PollSome(1)>>
        /\ yielded[t] = <<[k |-> "err", v |-> e], [k |-> "msg", v |-> 1]>>
        /\ pc[t] = "polling"

\* C9: at most one polling thread of the StreamConsumer is active, so no two
\* poll_raw calls are in progress at once.
C9_AtMostOneThread ==
    /\ Cardinality(Active) <= 1
    /\ Cardinality({t \in Threads : pc[t] = "polling"}) <= 1

\* C10: the underlying consumer is released only after the StreamConsumer is
\* dropped and every polling thread, orphaned ones included, has finished; the
\* drop has run stop(): no handle is stored, and if a thread was ever spawned
\* the flag is set and the last spawned thread has been joined.
C10_NoPollAfterRelease ==
    /\ consumerReleased => /\ callerPc = "dropped"
                           /\ \A t \in Threads : Finished(t)
    /\ callerPc = "dropped" =>
          /\ handle = NoHandle
          /\ nThreads > 0 => should_stop /\ pc[nThreads] = "done"
    /\ (callerPc = "dropped" /\ \A t \in Threads : Finished(t)) => consumerReleased

C10_Witness ==
    /\ consumerReleased
    /\ Len(polled[1]) > 0
    /\ Len(polled[2]) > 0

\* C11 as stated: the channel is a rendezvous, so a completed send has been
\* received: the thread is at its loop-top or in poll_raw only with nothing
\* resting in the channel.
C11_Rendezvous ==
    \A t \in Threads : pc[t] \in {"top", "polling"} => queue[t] = <<>>

\* C11 amended: the channel holds at most one item, the slot of its sender; the
\* sender is parked exactly while the slot is taken; a send completes into the
\* free slot without waiting for the receive, so the thread is in poll_raw with
\* at most one reported outcome not yet received by the stream, and at most two
\* (slot and send in progress) are ever waiting.
C11_OneSlot ==
    \A t \in Threads :
        /\ Len(queue[t]) <= ChannelBuffer + 1
        /\ parked[t] <=> queue[t] # <<>>
        /\ rxOpen[t] => Len(Handed(t)) - Len(yielded[t]) <= ChannelBuffer + 2
        /\ (rxOpen[t] /\ pc[t] \in {"top", "polling"})
              => Len(ReportedPolls(t)) - Len(yielded[t]) <= ChannelBuffer + 1

C11_Witness ==
    \E t \in Threads :
        /\ rxOpen[t]
        /\ pc[t] = "polling"
        /\ Len(queue[t]) = 1
        /\ yielded[t] # <<>>

\* reported outcomes of thread t that were neither yielded nor are waiting
Discarded(t) == Len(ReportedPolls(t)) - Len(Handed(t))

FetchedBy(t) == {polled[t][i].v : i \in {j \in 1..Len(polled[t]) : polled[t][j].k = "some"}}
YieldedMsgs(t) == {yielded[t][i].v : i \in {j \in 1..Len(yielded[t]) : yielded[t][j].k = "msg"}}
Pending(t) ==
    {queue[t][i].v : i \in {j \in 1..Len(queue[t]) : queue[t][j].k = "ptr"}}
        \cup (IF outcome[t].k = "ptr" THEN {outcome[t].v} ELSE {})

\* a fetched message that was not yielded and is not on its way to the stream
Lost(t, h) == h \in FetchedBy(t) /\ h \notin YieldedMsgs(t) /\ h \notin Pending(t)

\* C12 as stated: no reported outcome is ever discarded: each one has been
\* yielded, rests in the channel or is in the send in progress.
C12_NothingDiscarded ==
    \A t \in Threads : Discarded(t) = 0

\* C12 amended: while the MessageStream is alive no reported outcome is
\* discarded; once it is dropped at most two are (the item resting in the
\* channel and the item of the failed send), and the handle of a discarded
\* message is destroyed, not leaked.
C12_DiscardedOnlyOnDrop ==
    \A t \in Threads :
        /\ rxOpen[t] => Discarded(t) = 0
        /\ Discarded(t) \in 0..(ChannelBuffer + 2)
        /\ \A h \in Handles : Lost(t, h) => destroyed[h] = 1

C12_Witness ==
    \E t \in Threads :
        /\ ~rxOpen[t]
        /\ pc[t] = "done"
        /\ Discarded(t) = 2
        /\ yielded[t] # <<>>

\* C13: a message fetched by poll_raw can remain unprocessed: a fetched handle
\* is lost only when its MessageStream has been dropped, it is then destroyed
\* without ever having been owned by a view of the stream, and it stays lost:
\* the stream never yields it.
C13_FetchedNotYielded ==
    /\ [](\A t \in Threads : \A h \in Handles :
             Lost(t, h) => ~rxOpen[t] /\ destroyed[h] = 1 /\ h \notin views)
    /\ [][\A t \in Threads : \A h \in Handles : Lost(t, h) => Lost(t, h)']_vars

C13_Witness ==
    \E t \in Threads : \E h \in Handles :
        /\ Lost(t, h)
        /\ pc[t] = "done"
        /\ polled[t][Len(polled[t])] # PollSome(h)

\* C14: a stream yields end-of-sequence only when its thread has returned (the
\* sender is gone) and everything sent has been yielded; what it has yielded is
\* then exactly the reported outcomes (no item stands for the closed channel);
\* after end-of-sequence it yields nothing more.
C14_EndOfSequence ==
    /\ [](\A t \in Threads :
             streamEnded[t] => /\ pc[t] = "done"
                               /\ queue[t] = <<>>
                               /\ yielded[t] = MapExpected(ReportedPolls(t)))
    /\ [][\A t \in Threads :
             streamEnded[t] => streamEnded'[t] /\ yielded'[t] = yielded[t]]_vars

C14_Witness ==
    \E t \in Threads : streamEnded[t] /\ rxOpen[t] /\ pc[t] = "done"

\* C15: a send that fails on a dropped receiver ends the thread at once,
\* whatever the stop flag: the thread returns, the outcome it carried is
\* released (a message handle is destroyed), nothing is enqueued; a returned
\* thread polls and sends nothing more.
C15_SendFailureTerminates ==
    [][\A t \in Threads :
          /\ (pc[t] = "send" /\ pc'[t] # "send" /\ ~rxOpen[t])
                => /\ pc'[t] = "done"
                   /\ outcome'[t] = NoItem
                   /\ queue'[t] = queue[t]
                   /\ outcome[t].k = "ptr" => destroyed'[outcome[t].v] = 1
          /\ pc[t] = "done"
                => /\ pc'[t] = "done"
                   /\ polled'[t] = polled[t]
                   /\ outcome'[t] = NoItem
                   /\ Len(queue'[t]) <= Len(queue[t])]_vars

C15_Witness ==
    \E t \in Threads : \E h \in Handles :
        /\ pc[t] = "done"
        /\ ~should_stop
        /\ ~rxOpen[t]
        /\ Lost(t, h)
        /\ polled[t][Len(polled[t])] = PollSome(h)

\* C16: a thread returns only from its loop-top check with the flag set or
\* from a send on a dropped receiver; a poll_raw outcome never ends it.
C16_TerminationReasons ==
    [][\A t \in Threads :
          (pc[t] # "done" /\ pc'[t] = "done")
              => \/ pc[t] = "top" /\ should_stop
                 \/ pc[t] = "send" /\ ~rxOpen[t]]_vars

C16_Witness ==
    \E t \in Threads :
        /\ pc[t] = "polling"
        /\ Len(polled[t]) = 2
        /\ polled[t][1].k = "err"
        /\ polled[t][2] = PollNone

\* the moves of a thread once the flag is set
AfterFlag == {<<"unspawned", "top">>, <<"top", "done">>, <<"polling", "send">>,
              <<"polling", "top">>, <<"send", "done">>}

\* C17: with the flag set no thread enters poll_raw; a poll_raw call in
\* progress completes and its outcome, if reported, goes to one send; the
\* thread then returns from the failed send or from its next loop-top check.
C17_FlagCheckedAtTop ==
    [][should_stop =>
          \A t \in Threads :
              /\ pc'[t] # pc[t] => <<pc[t], pc'[t]>> \in AfterFlag
              /\ (pc[t] = "polling" /\ pc'[t] # "polling")
                    => /\ Len(polled'[t]) = Len(polled[t]) + 1
                       /\ pc'[t] = "send"
                             => outcome'[t] # NoItem
                                /\ AsYielded(outcome'[t]) =
                                      ExpectedOf(polled'[t][Len(polled'[t])])]_vars

C17_Witness ==
    \E t \in Threads :
        /\ should_stop
        /\ pc[t] = "send"
        /\ outcome[t].k = "ptr"

\* C18: the flag is never cleared; a thread spawned with the flag set returns
\* at its first loop-top check without a poll_raw call, and a stream that
\* yields end-of-sequence has yielded no item.
C18_FlagNeverReset ==
    /\ [][should_stop => should_stop']_vars
    /\ [][should_stop =>
             \A t \in Threads :
                 pc[t] \in {"unspawned", "top"}
                     => pc'[t] \in {"unspawned", "top", "done"} /\ polled'[t] = polled[t]]_vars
    /\ [](\A t \in Threads : streamEnded[t] => polled[t] = <<>> /\ yielded[t] = <<>>)

C18_Witness ==
    /\ should_stop
    /\ callerPc = "idle"
    /\ pc[1] = "done"
    /\ polled[1] # <<>>
    /\ pc[2] = "done"
    /\ polled[2] = <<>>
    /\ streamEnded[2]

\* C19: stop() waits in the join only with the flag stored and every stream
\* dropped, and the join of stop(), and of the stop() inside drop, completes.
C19_StopReturns ==
    /\ [](callerPc \in {"stop_join", "drop_join"}
            => should_stop /\ NoBorrow /\ joinTarget \in Threads)
    /\ (callerPc = "stop_join") ~> (callerPc = "idle")
    /\ (callerPc = "drop_join") ~> (callerPc = "dropped")

C19_Witness ==
    /\ callerPc = "stop_join"
    /\ pc[joinTarget] = "send"
    /\ no_message_error[joinTarget]
    /\ TotalPolls = MaxPolls

\* C20: a repeated start stores the new thread's handle and leaves the earlier
\* thread running unjoined; every thread reads the one flag, so with the flag
\* set a thread at its loop-top can only return; once the flag is set every
\* spawned thread, the orphaned one included, eventually returns.
C20_OrphansTerminate ==
    /\ [][nThreads' # nThreads => handle' = nThreads' /\ handle' # handle
                                  /\ \A t \in Threads : t # nThreads' => pc'[t] = pc[t]]_vars
    /\ [][\A t \in Threads :
             (should_stop /\ pc[t] = "top" /\ pc'[t] # "top") => pc'[t] = "done"]_vars
    /\ should_stop ~> (\A t \in Threads : Finished(t))

C20_Witness ==
    /\ callerPc = "idle"
    /\ should_stop
    /\ handle = NoHandle
    /\ pc[2] = "done"
    /\ pc[1] = "polling"

====
